---- MODULE Spec2Model ----
(***************************************************************************)
(* A model of yamlpath's document Merger (src/yamlpath/merger.py).         *)
(*                                                                         *)
(* Documents are object graphs: every node (scalar, mapping, sequence) is  *)
(* a cell of `heap`, mappings hold (key node, value node) pairs in         *)
(* insertion order, sequences hold element nodes, and an alias is a second *)
(* reference to the same cell.  The Merger mutates the cells in place, as  *)
(* the Python code mutates the ruamel.yaml objects.                        *)
(***************************************************************************)
EXTENDS Integers, Sequences, FiniteSets, TLC

VARIABLES
    heap,       \* node id -> node: every object of every loaded document
    data,       \* Merger.data: the root node of the accumulated target
    pending,    \* roots of the incoming documents not merged yet, in order
    cfg,        \* the MergerConfig: what each policy lookup returns
    pyhash,     \* the process's hash() of the strings that get hashed
    status,     \* "ready"; "failed" once logger.error(..., code) has exited;
                \* "hung" once a call has entered a loop that never ends;
                \* "crashed" once a call has ended in an exception
    failure,    \* the fatal error: [code, anchor]
    steps,      \* the pipeline steps the last merge_with call performed
    prev,       \* the heap, target root and incoming root as the last call began
    resolver,   \* the last call's anchor resolver: the two scans and the heap it left
    calls       \* how many merge_with calls have been made

vars == <<heap, data, pending, cfg, pyhash, status, failure, steps, prev, resolver, calls>>

----------------------------------------------------------------------------
(* Bounds of the model. *)

MaxKeys == 3        \* keys of a generated mapping (target and incoming each)
MaxElems == 2       \* elements of a generated list (target and incoming each)
MaxRecs == 2        \* records of a generated array of maps
LoopCap == 12       \* list elements after which a loop is taken never to end

----------------------------------------------------------------------------
(* Nodes. *)

\* The value of node.anchor.value when the node has an anchor attribute but
\* no anchor name.
None == <<>>

\* hasattr(node, "anchor") is false: a plain Python scalar.
NoAttr == <<"#noattr">>

\* cmt: whether a comment is attached to the node.
ScalarNode(v, a) ==
    [kind |-> "scalar", value |-> v, anchor |-> a, ents |-> <<>>, cmt |-> FALSE]

\* ents: the (key node, value node) pairs in insertion order.
MapNode(ents, a) ==
    [kind |-> "map", value |-> "", anchor |-> a, ents |-> ents, cmt |-> FALSE]

\* ents: the element nodes in order.
SeqNode(ents, a) ==
    [kind |-> "seq", value |-> "", anchor |-> a, ents |-> ents, cmt |-> FALSE]

hasattr_anchor(h, n) == h[n].anchor # NoAttr

\* Python's == on two nodes: scalars by value, lists element-wise, mappings
\* as dicts (CommentedMap compares as a plain dict, whatever the key order).
RECURSIVE NodeEq(_, _, _)
NodeEq(h, a, b) ==
    IF a = b THEN TRUE
    ELSE IF h[a].kind # h[b].kind THEN FALSE
    ELSE IF h[a].kind = "scalar" THEN h[a].value = h[b].value
    ELSE IF h[a].kind = "seq" THEN
        /\ Len(h[a].ents) = Len(h[b].ents)
        /\ \A i \in 1..Len(h[a].ents) : NodeEq(h, h[a].ents[i], h[b].ents[i])
    ELSE
        /\ Len(h[a].ents) = Len(h[b].ents)
        /\ \A i \in 1..Len(h[a].ents) : \E j \in 1..Len(h[b].ents) :
              /\ NodeEq(h, h[a].ents[i][1], h[b].ents[j][1])
              /\ NodeEq(h, h[a].ents[i][2], h[b].ents[j][2])

\* `ele in lhs` for a list lhs.
InList(h, ele, lhs) == \E j \in 1..Len(h[lhs].ents) : NodeEq(h, h[lhs].ents[j], ele)

\* The position of the entry of mapping m whose key has the value kv; 0 if
\* none.  Mapping keys are scalars, found by value.
KeyIndex(h, m, kv) ==
    LET hits == {j \in 1..Len(h[m].ents) : h[h[m].ents[j][1]].value = kv}
    IN  IF hits = {} THEN 0 ELSE CHOOSE j \in hits : \A j2 \in hits : j <= j2

\* `key in lhs` for a mapping lhs.
KeyIn(h, kv, m) == KeyIndex(h, m, kv) # 0

\* lhs[key]
GetItem(h, m, kv) == h[m].ents[KeyIndex(h, m, kv)][2]

\* A mutation of SetItem: the rewritten key moves to the end of the mapping.
SetItemAtEnd(h, m, k, v) ==
    LET j == KeyIndex(h, m, h[k].value)
        es == h[m].ents
    IN  IF j = 0
        THEN [h EXCEPT ![m].ents = Append(es, <<k, v>>)]
        ELSE [h EXCEPT ![m].ents =
                 SubSeq(es, 1, j - 1) \o SubSeq(es, j + 1, Len(es)) \o <<(<<es[j][1], v>>)>>]

\* lhs[key] = val: an existing key keeps its key object and its position; a
\* new key goes to the end.
SetItem(h, m, k, v) ==
    LET j == KeyIndex(h, m, h[k].value)
    IN  IF j = 0
        THEN [h EXCEPT ![m].ents = Append(@, <<k, v>>)]
        ELSE [h EXCEPT ![m].ents[j] = <<@[1], v>>]

\* CommentedMap.insert(pos, key, value) for a key the mapping does not hold:
\* a position at or beyond the end appends, any other position puts the
\* entry before the entry now at that (0-based) position.
InsertItem(h, m, pos, k, v) ==
    LET es == h[m].ents
    IN  IF pos >= Len(es)
        THEN [h EXCEPT ![m].ents = Append(es, <<k, v>>)]
        ELSE [h EXCEPT ![m].ents =
                 SubSeq(es, 1, pos) \o <<(<<k, v>>)>> \o SubSeq(es, pos + 1, Len(es))]

\* append_list_element(lhs, ele, anchor): the element object itself is
\* appended (it carries its anchor already).
append_list_element(h, lhs, ele) == [h EXCEPT ![lhs].ents = Append(@, ele)]

----------------------------------------------------------------------------
(* The Deep Merge Engine.  Every merge function is an operator from the    *)
(* heap to the heap after its in-place writes and the node it returns.     *)

\* Lines 195-197: every buffered pair is inserted at the same buffer_pos.
RECURSIVE FlushBuffer(_, _, _, _)
FlushBuffer(h, lhs, buffer, buffer_pos) ==
    IF buffer = <<>> THEN h
    ELSE FlushBuffer(InsertItem(h, lhs, buffer_pos, buffer[1][1], buffer[1][2]),
                     lhs, Tail(buffer), buffer_pos)

\* Lines 217-218: what is still buffered goes to the end of lhs.
RECURSIVE WriteRemaining(_, _, _)
WriteRemaining(h, lhs, buffer) ==
    IF buffer = <<>> THEN h
    ELSE WriteRemaining(SetItem(h, lhs, buffer[1][1], buffer[1][2]), lhs, Tail(buffer))

\* A mutation of ShouldAppend: UNIQUE appends like ALL.
ShouldAppendAlways(h, append_all, ele, lhs) == TRUE

\* A mutation of ShouldAppend: ALL drops known elements like UNIQUE.
ShouldAppendIfNew(h, append_all, ele, lhs) == ~InList(h, ele, lhs)

\* Line 240: append_all or (ele not in lhs)
ShouldAppend(h, append_all, ele, lhs) == append_all \/ ~InList(h, ele, lhs)

\* A mutation of MatchingRecord: the last record with that identity matches.
MatchingRecordLast(h, lhs, id_key, rhs_key_value) ==
    LET hits == {j \in 1..Len(h[lhs].ents) :
                    /\ KeyIn(h, id_key, h[lhs].ents[j])
                    /\ NodeEq(h, GetItem(h, h[lhs].ents[j], id_key), rhs_key_value)}
    IN  IF hits = {} THEN 0 ELSE CHOOSE j \in hits : \A j2 \in hits : j2 <= j

\* Lines 269-275: the first record of lhs that holds id_key with a value
\* equal to the incoming record's; 0 if none.
MatchingRecord(h, lhs, id_key, rhs_key_value) ==
    LET hits == {j \in 1..Len(h[lhs].ents) :
                    /\ KeyIn(h, id_key, h[lhs].ents[j])
                    /\ NodeEq(h, GetItem(h, h[lhs].ents[j], id_key), rhs_key_value)}
    IN  IF hits = {} THEN 0 ELSE CHOOSE j \in hits : \A j2 \in hits : j <= j2

RECURSIVE _merge_dicts(_, _, _, _)
RECURSIVE _merge_dicts_loop(_, _, _, _, _, _)
RECURSIVE _merge_dicts_value(_, _, _, _, _)
RECURSIVE _merge_dicts_store(_, _, _, _, _, _)
RECURSIVE _merge_lists(_, _, _, _)
RECURSIVE _merge_simple_lists(_, _, _, _)
RECURSIVE _merge_simple_lists_loop(_, _, _, _, _)
RECURSIVE _merge_arrays_of_hashes(_, _, _, _)
RECURSIVE _merge_arrays_of_hashes_loop(_, _, _, _, _)
RECURSIVE _merge_arrays_of_hashes_element(_, _, _, _)
RECURSIVE _merge_arrays_of_hashes_next(_, _, _, _, _)

\* What a merge function hands back: the heap after its writes, the node it
\* returns, whether it runs on forever instead of returning, and whether it
\* raised an exception instead of returning.
Returned(h, n) == [heap |-> h, node |-> n, hang |-> FALSE, raised |-> FALSE]
Hung(h, n) == [heap |-> h, node |-> n, hang |-> TRUE, raised |-> FALSE]
Raised(h, n) == [heap |-> h, node |-> n, hang |-> FALSE, raised |-> TRUE]

\* Lines 178-183 and 220.  path is the sequence of segments walked so far;
\* the root call has the empty path and is always a deep merge.
_merge_dicts(h, lhs, rhs, path) ==
    IF Len(path) > 0 /\ cfg.hash = "LEFT" THEN Returned(h, lhs)
    ELSE IF Len(path) > 0 /\ cfg.hash = "RIGHT" THEN Returned(h, rhs)
    ELSE _merge_dicts_loop(h, lhs, rhs, path, 1, <<>>)

\* Lines 186-220: the loop over rhs.items(); i is the 1-based position of
\* the entry being processed, so buffer_pos = i - 1.  When lhs is no
\* mapping (a string, a list), lhs[key] and lhs[b_key] = b_val raise a
\* TypeError for the first entry of rhs that gets there.
_merge_dicts_loop(h, lhs, rhs, path, i, buffer) ==
    IF h[lhs].kind # "map" /\ Len(h[rhs].ents) > 0 THEN Raised(h, lhs)
    ELSE IF i > Len(h[rhs].ents) THEN Returned(WriteRemaining(h, lhs, buffer), lhs)
    ELSE IF KeyIn(h, h[h[rhs].ents[i][1]].value, lhs)
    THEN _merge_dicts_store(
             _merge_dicts_value(FlushBuffer(h, lhs, buffer, i - 1), lhs,
                                h[rhs].ents[i][1], h[rhs].ents[i][2], path),
             lhs, rhs, path, i, h[rhs].ents[i][1])
    ELSE _merge_dicts_loop(h, lhs, rhs, path, i + 1, Append(buffer, h[rhs].ents[i]))

\* Lines 200-207, right-hand sides: what is stored at a key lhs has too, in
\* the heap h with the buffer flushed.
_merge_dicts_value(h, lhs, key, val, path) ==
    IF h[val].kind = "map"
    THEN _merge_dicts(h, GetItem(h, lhs, h[key].value), val, Append(path, h[key].value))
    ELSE IF h[val].kind = "seq"
    THEN _merge_lists(h, GetItem(h, lhs, h[key].value), val, Append(path, h[key].value))
    ELSE Returned(h, val)

\* Lines 200-207, the assignment lhs[key] = ..., and on to the next entry
\* with an empty buffer; r is what the right-hand side handed back.
_merge_dicts_store(r, lhs, rhs, path, i, key) ==
    IF r.hang THEN Hung(r.heap, lhs)
    ELSE IF r.raised THEN Raised(r.heap, lhs)
    ELSE _merge_dicts_loop(SetItem(r.heap, lhs, key, r.node), lhs, rhs, path, i + 1, <<>>)

\* A mutation of _merge_lists: an empty rhs is merged like any other.
_merge_lists_unguarded(h, lhs, rhs, path) == _merge_simple_lists(h, lhs, rhs, path)

\* Lines 289-305.
_merge_lists(h, lhs, rhs, path) ==
    IF Len(h[rhs].ents) > 0
    THEN IF h[h[rhs].ents[1]].kind = "map"
         THEN _merge_arrays_of_hashes(h, lhs, rhs, path)
         ELSE _merge_simple_lists(h, lhs, rhs, path)
    ELSE Returned(h, lhs)

\* Lines 222-233 and 244.
_merge_simple_lists(h, lhs, rhs, path) ==
    IF cfg.array = "LEFT" THEN Returned(h, lhs)
    ELSE IF cfg.array = "RIGHT" THEN Returned(h, rhs)
    ELSE _merge_simple_lists_loop(h, lhs, rhs, 1, cfg.array = "ALL")

\* Lines 234-244: the loop over enumerate(rhs), reading the list as it is
\* now.  A loop still running after LoopCap elements is one whose list grows
\* under it (rhs is the list it appends to): it never ends.
_merge_simple_lists_loop(h, lhs, rhs, idx, append_all) ==
    IF idx > Len(h[rhs].ents) THEN Returned(h, lhs)
    ELSE IF idx > LoopCap THEN Hung(h, lhs)
    ELSE IF ShouldAppend(h, append_all, h[rhs].ents[idx], lhs)
    THEN _merge_simple_lists_loop(append_list_element(h, lhs, h[rhs].ents[idx]),
                                  lhs, rhs, idx + 1, append_all)
    ELSE _merge_simple_lists_loop(h, lhs, rhs, idx + 1, append_all)

\* Lines 246-255 and 287.
_merge_arrays_of_hashes(h, lhs, rhs, path) ==
    IF cfg.aoh = "LEFT" THEN Returned(h, lhs)
    ELSE IF cfg.aoh = "RIGHT" THEN Returned(h, rhs)
    ELSE _merge_arrays_of_hashes_loop(h, lhs, rhs, path, 1)

\* Lines 257-287: the loop over enumerate(rhs), reading the list as it is
\* now; it never ends when the list grows under it.
_merge_arrays_of_hashes_loop(h, lhs, rhs, path, idx) ==
    IF idx > Len(h[rhs].ents) THEN Returned(h, lhs)
    ELSE IF idx > LoopCap THEN Hung(h, lhs)
    ELSE _merge_arrays_of_hashes_next(
             _merge_arrays_of_hashes_element(h, lhs, h[rhs].ents[idx], Append(path, "[]")),
             lhs, rhs, path, idx)

\* Lines 265-286: one incoming record.  The mapping _merge_dicts returns is
\* bound to the loop variable only; the list keeps the record it held.
_merge_arrays_of_hashes_element(h, lhs, ele, path_next) ==
    IF cfg.aoh = "DEEP"
    THEN IF MatchingRecord(h, lhs, cfg.aohkey, GetItem(h, ele, cfg.aohkey)) # 0
         THEN _merge_dicts(h,
                  h[lhs].ents[MatchingRecord(h, lhs, cfg.aohkey, GetItem(h, ele, cfg.aohkey))],
                  ele, path_next)
         ELSE Returned(append_list_element(h, lhs, ele), lhs)
    ELSE IF cfg.aoh = "UNIQUE" /\ InList(h, ele, lhs)
    THEN Returned(h, lhs)
    ELSE Returned(append_list_element(h, lhs, ele), lhs)

\* Line 257, the next turn of the loop; r is what the record's merge handed
\* back.
_merge_arrays_of_hashes_next(r, lhs, rhs, path, idx) ==
    IF r.hang THEN Hung(r.heap, lhs)
    ELSE IF r.raised THEN Raised(r.heap, lhs)
    ELSE _merge_arrays_of_hashes_loop(r.heap, lhs, rhs, path, idx + 1)

----------------------------------------------------------------------------
(* Anchors.  An anchor name is a string, kept as its sequence of           *)
(* characters so that _calc_unique_anchor's suffixes are what they are.    *)

\* The anchors dict of scan_for_anchors: <<name, node>> pairs in insertion
\* order.  anchors[name] = node keeps the position of a name already there.
DictPut(anchors, name, node) ==
    LET hits == {j \in 1..Len(anchors) : anchors[j][1] = name}
    IN  IF hits = {} THEN Append(anchors, <<name, node>>)
        ELSE [anchors EXCEPT ![CHOOSE j \in hits : TRUE] = <<name, node>>]

DictKeys(anchors) == {anchors[j][1] : j \in 1..Len(anchors)}

DictGet(anchors, name) ==
    anchors[CHOOSE j \in 1..Len(anchors) : anchors[j][1] = name][2]

RECURSIVE scan_for_anchors(_, _, _)
RECURSIVE scan_items(_, _, _, _)
RECURSIVE scan_elements(_, _, _, _)

\* Lines 449-469.
scan_for_anchors(h, dom, anchors) ==
    IF h[dom].kind = "map" THEN scan_items(h, dom, 1, anchors)
    ELSE IF h[dom].kind = "seq" THEN scan_elements(h, dom, 1, anchors)
    ELSE IF hasattr_anchor(h, dom) THEN DictPut(anchors, h[dom].anchor, dom)
    ELSE anchors

\* Lines 453-462: the loop over dom.items().
scan_items(h, dom, i, anchors) ==
    IF i > Len(h[dom].ents) THEN anchors
    ELSE
        LET key == h[dom].ents[i][1]
            val == h[dom].ents[i][2]
            a1 == IF hasattr_anchor(h, key) /\ h[key].anchor # None
                  THEN DictPut(anchors, h[key].anchor, key) ELSE anchors
            a2 == IF hasattr_anchor(h, val) /\ h[val].anchor # None
                  THEN DictPut(a1, h[val].anchor, val) ELSE a1
            a3 == IF h[val].kind \in {"map", "seq"}
                  THEN scan_for_anchors(h, val, a2) ELSE a2
        IN  scan_items(h, dom, i + 1, a3)

\* Lines 465-466: the loop over the elements of a list.
scan_elements(h, dom, i, anchors) ==
    IF i > Len(h[dom].ents) THEN anchors
    ELSE scan_elements(h, dom, i + 1, scan_for_anchors(h, h[dom].ents[i], anchors))

\* str(n) for an integer n, as its characters.
RECURSIVE Digits(_)
Digits(n) ==
    LET d == <<"0", "1", "2", "3", "4", "5", "6", "7", "8", "9">>
    IN  IF n < 10 THEN <<d[n + 1]>> ELSE Digits(n \div 10) \o <<d[(n % 10) + 1]>>

\* hash(anchor): the interpreter's string hash, fixed for the run.
hash(anchor) == IF anchor \in DOMAIN pyhash THEN pyhash[anchor] ELSE Len(anchor)

\* Line 314: str(hash(anchor)).replace("-", "_")
HashSuffix(anchor) ==
    IF hash(anchor) < 0 THEN <<"_">> \o Digits(0 - hash(anchor))
    ELSE Digits(hash(anchor))

\* "{}".format(anchor): None is written "None".
Format(anchor) == IF anchor = None THEN <<"None">> ELSE anchor

\* Lines 307-318.
RECURSIVE _calc_unique_anchor(_, _)
_calc_unique_anchor(anchor, known_anchors) ==
    IF anchor \in known_anchors
    THEN _calc_unique_anchor(Format(anchor) \o <<"_">> \o HashSuffix(anchor),
                             known_anchors)
    ELSE anchor

\* Lines 497-500 and 505-506: node.anchor.value = new_anchor when the node
\* carries anchor.
RenameNode(h, n, anchor, new_anchor) ==
    IF hasattr_anchor(h, n) /\ h[n].anchor = anchor
    THEN [h EXCEPT ![n].anchor = new_anchor] ELSE h

RECURSIVE rename_anchor(_, _, _, _)
RECURSIVE rename_items(_, _, _, _, _)
RECURSIVE rename_elements(_, _, _, _, _)

\* Lines 492-506.
rename_anchor(h, dom, anchor, new_anchor) ==
    IF h[dom].kind = "map" THEN rename_items(h, dom, 1, anchor, new_anchor)
    ELSE IF h[dom].kind = "seq" THEN rename_elements(h, dom, 1, anchor, new_anchor)
    ELSE RenameNode(h, dom, anchor, new_anchor)

\* Lines 496-501: the loop over dom.items().
rename_items(h, dom, i, anchor, new_anchor) ==
    IF i > Len(h[dom].ents) THEN h
    ELSE
        LET key == h[dom].ents[i][1]
            val == h[dom].ents[i][2]
            h1 == RenameNode(h, key, anchor, new_anchor)
            h2 == RenameNode(h1, val, anchor, new_anchor)
        IN  rename_items(rename_anchor(h2, val, anchor, new_anchor),
                         dom, i + 1, anchor, new_anchor)

\* Lines 503-504: the loop over the elements of a list.
rename_elements(h, dom, i, anchor, new_anchor) ==
    IF i > Len(h[dom].ents) THEN h
    ELSE rename_elements(rename_anchor(h, h[dom].ents[i], anchor, new_anchor),
                         dom, i + 1, anchor, new_anchor)

----------------------------------------------------------------------------
(* KEEP_LEFT / KEEP_RIGHT: one node replaces every node of the other       *)
(* document that carries the anchor.                                       *)

\* Lines 471-490.  The result is [found, path]: found is FALSE where the
\* Python function returns None.  Each loop returns in its first iteration.
RECURSIVE search_for_anchor(_, _, _, _)
search_for_anchor(h, dom, anchor, path) ==
    IF h[dom].kind = "map" /\ Len(h[dom].ents) > 0
    THEN LET key == h[dom].ents[1][1]
             val == h[dom].ents[1][2]
             path_next == Append(path, <<"key", h[key].value>>)
         IN  IF hasattr_anchor(h, key) /\ h[key].anchor = anchor
             THEN [found |-> TRUE, path |-> Append(path, <<"anchor", anchor>>)]
             ELSE IF hasattr_anchor(h, val) /\ h[val].anchor = anchor
             THEN [found |-> TRUE, path |-> path_next]
             ELSE search_for_anchor(h, val, anchor, path_next)
    ELSE IF h[dom].kind = "seq" /\ Len(h[dom].ents) > 0
    THEN search_for_anchor(h, h[dom].ents[1], anchor, Append(path, <<"idx", 1>>))
    ELSE IF h[dom].kind = "scalar" /\ hasattr_anchor(h, dom) /\ h[dom].anchor = anchor
    THEN [found |-> TRUE, path |-> path]
    ELSE [found |-> FALSE, path |-> <<>>]

\* The Path Resolver (Processor.get_nodes with mustexist): the first node the
\* path leads to from dom.  An "anchor" segment selects, in a mapping, the
\* key or value that carries the anchor name.
RECURSIVE get_nodes(_, _, _)
get_nodes(h, dom, path) ==
    IF path = <<>> THEN dom
    ELSE LET seg == Head(path)
         IN  IF seg[1] = "key" THEN get_nodes(h, GetItem(h, dom, seg[2]), Tail(path))
             ELSE IF seg[1] = "idx" THEN get_nodes(h, h[dom].ents[seg[2]], Tail(path))
             ELSE LET j == CHOOSE j \in 1..Len(h[dom].ents) :
                               \/ h[h[dom].ents[j][1]].anchor = seg[2]
                               \/ h[h[dom].ents[j][2]].anchor = seg[2]
                  IN  IF h[h[dom].ents[j][1]].anchor = seg[2]
                      THEN h[dom].ents[j][1] ELSE h[dom].ents[j][2]

\* data.pop(key): the mapping without the entry of that key.
PopItem(h, m, kv) ==
    LET j == KeyIndex(h, m, kv)
        es == h[m].ents
    IN  [h EXCEPT ![m].ents = SubSeq(es, 1, j - 1) \o SubSeq(es, j + 1, Len(es))]

\* Lines 389-393: the (0-based) positions of the keys that carry anchor_val,
\* listed before any of them is replaced.
AnchoredKeyPositions(h, data_, anchor_val) ==
    LET F[i \in 0..Len(h[data_].ents)] ==
            IF i = 0 THEN <<>>
            ELSE IF /\ hasattr_anchor(h, h[data_].ents[i][1])
                    /\ h[h[data_].ents[i][1]].anchor = anchor_val
                 THEN Append(F[i - 1], <<i - 1, h[data_].ents[i][1]>>)
                 ELSE F[i - 1]
    IN  F[Len(h[data_].ents)]

\* A mutation of ReplaceKeys: the replacing key goes to the end of the
\* mapping.
RECURSIVE ReplaceKeysAtEnd(_, _, _, _)
ReplaceKeysAtEnd(h, data_, todo, repl_node) ==
    IF todo = <<>> THEN h
    ELSE LET kv == h[todo[1][2]].value
             val == GetItem(h, data_, kv)
         IN  ReplaceKeysAtEnd(
                 InsertItem(PopItem(h, data_, kv), data_, Len(h[data_].ents), repl_node, val),
                 data_, Tail(todo), repl_node)

\* Line 394, for each listed key: data.insert(idx, repl_node, data.pop(key))
RECURSIVE ReplaceKeys(_, _, _, _)
ReplaceKeys(h, data_, todo, repl_node) ==
    IF todo = <<>> THEN h
    ELSE LET idx == todo[1][1]
             kv == h[todo[1][2]].value
             val == GetItem(h, data_, kv)
         IN  ReplaceKeys(InsertItem(PopItem(h, data_, kv), data_, idx, repl_node, val),
                         data_, Tail(todo), repl_node)

RECURSIVE recursive_anchor_replace(_, _, _, _)
RECURSIVE replace_items(_, _, _, _, _)
RECURSIVE replace_elements(_, _, _, _, _)

\* Lines 385-409.
recursive_anchor_replace(h, data_, anchor_val, repl_node) ==
    IF h[data_].kind = "map"
    THEN replace_items(
             ReplaceKeys(h, data_, AnchoredKeyPositions(h, data_, anchor_val), repl_node),
             data_, 1, anchor_val, repl_node)
    ELSE IF h[data_].kind = "seq"
    THEN replace_elements(h, data_, 1, anchor_val, repl_node)
    ELSE h

\* Lines 396-402: the loop over the items of a mapping.
replace_items(h, data_, i, anchor_val, repl_node) ==
    IF i > Len(h[data_].ents) THEN h
    ELSE
        LET key == h[data_].ents[i][1]
            val == h[data_].ents[i][2]
        IN  replace_items(
                IF hasattr_anchor(h, val) /\ h[val].anchor = anchor_val
                THEN SetItem(h, data_, key, repl_node)
                ELSE recursive_anchor_replace(h, val, anchor_val, repl_node),
                data_, i + 1, anchor_val, repl_node)

\* Lines 404-409: the loop over the elements of a list.
replace_elements(h, data_, i, anchor_val, repl_node) ==
    IF i > Len(h[data_].ents) THEN h
    ELSE
        LET ele == h[data_].ents[i]
        IN  replace_elements(
                IF hasattr_anchor(h, ele) /\ h[ele].anchor = anchor_val
                THEN [h EXCEPT ![data_].ents[i] = repl_node]
                ELSE recursive_anchor_replace(h, ele, anchor_val, repl_node),
                data_, i + 1, anchor_val, repl_node)

\* No fatal error.
NoFailure == [code |-> 0, anchor |-> None]

\* Lines 381-428.  The result is [heap, fail].  A search that found no path
\* leaves the Path Resolver nothing to resolve: the lookup fails fatally.
_overwrite_aliased_values(h, source_dom, target_dom, anchor) ==
    LET source_path == search_for_anchor(h, source_dom, anchor, <<>>)
    IN  IF ~source_path.found
        THEN [heap |-> h, fail |-> [code |-> 1, anchor |-> anchor]]
        ELSE [heap |-> recursive_anchor_replace(
                           h, target_dom, anchor,
                           get_nodes(h, source_dom, source_path.path)),
              fail |-> NoFailure]

\* Lines 340-379, for one anchor name of both documents.  The result is
\* [heap, fail]; fail.code is the exit code of logger.error.
ResolveOne(h, lhs_root, rhs, anchor, lhs_anchors, rhs_anchors) ==
    LET prime_alias == DictGet(lhs_anchors, anchor)
        reader_alias == DictGet(rhs_anchors, anchor)
        conflict_mode == cfg.anchor
    IN  IF h[prime_alias].kind \in {"map", "seq"}
        THEN [heap |-> h, fail |-> [code |-> 142, anchor |-> None]]
        ELSE IF ~NodeEq(h, prime_alias, reader_alias)
        THEN IF conflict_mode = "RENAME"
             THEN [heap |-> rename_anchor(h, rhs, anchor,
                               _calc_unique_anchor(anchor,
                                   DictKeys(lhs_anchors) \cup DictKeys(rhs_anchors))),
                   fail |-> NoFailure]
             ELSE IF conflict_mode = "LEFT"
             THEN _overwrite_aliased_values(h, lhs_root, rhs, anchor)
             ELSE IF conflict_mode = "RIGHT"
             THEN _overwrite_aliased_values(h, rhs, lhs_root, anchor)
             ELSE [heap |-> h, fail |-> [code |-> 4, anchor |-> anchor]]
        ELSE [heap |-> h, fail |-> NoFailure]

\* A mutation of CommonAnchors: no name is taken to be in both documents.
NoCommonAnchors(lhs_anchors, rhs_anchors) == <<>>

\* Lines 332-335: the anchor names of rhs that lhs has too, in rhs order.
CommonAnchors(lhs_anchors, rhs_anchors) ==
    LET F[i \in 0..Len(rhs_anchors)] ==
            IF i = 0 THEN <<>>
            ELSE IF rhs_anchors[i][1] \in DictKeys(lhs_anchors)
                 THEN Append(F[i - 1], rhs_anchors[i][1]) ELSE F[i - 1]
    IN  F[Len(rhs_anchors)]

\* Lines 332-379: the loop over the common names; a fatal error ends it.
RECURSIVE resolve_loop(_, _, _, _, _, _)
resolve_loop(h, lhs_root, rhs, todo, lhs_anchors, rhs_anchors) ==
    IF todo = <<>> THEN [heap |-> h, fail |-> NoFailure]
    ELSE LET r == ResolveOne(h, lhs_root, rhs, Head(todo), lhs_anchors, rhs_anchors)
         IN  IF r.fail # NoFailure THEN r
             ELSE resolve_loop(r.heap, lhs_root, rhs, Tail(todo), lhs_anchors, rhs_anchors)

\* What the resolver hands on: the heap and failure r of its loop, and the
\* two scans it took.
resolve_done(r, lhs_anchors, rhs_anchors) ==
    [heap |-> r.heap, fail |-> r.fail,
     lhs_anchors |-> lhs_anchors, rhs_anchors |-> rhs_anchors]

\* Lines 332-379, given the two scans.
resolve_scanned(h, lhs_root, rhs, lhs_anchors, rhs_anchors) ==
    resolve_done(resolve_loop(h, lhs_root, rhs, CommonAnchors(lhs_anchors, rhs_anchors),
                              lhs_anchors, rhs_anchors),
                 lhs_anchors, rhs_anchors)

\* Lines 320-379.
_resolve_anchor_conflicts(h, lhs_root, rhs) ==
    resolve_scanned(h, lhs_root, rhs,
                    scan_for_anchors(h, lhs_root, <<>>), scan_for_anchors(h, rhs, <<>>))

RECURSIVE delete_all_comments(_, _)
RECURSIVE delete_comments_items(_, _, _)
RECURSIVE delete_comments_elements(_, _, _)

\* Lines 509-529.
delete_all_comments(h, dom) ==
    LET h1 == IF h[dom].kind = "map" THEN delete_comments_items(h, dom, 1)
              ELSE IF h[dom].kind = "seq" THEN delete_comments_elements(h, dom, 1)
              ELSE h
    IN  [h1 EXCEPT ![dom].cmt = FALSE]

\* Lines 517-519.
delete_comments_items(h, dom, i) ==
    IF i > Len(h[dom].ents) THEN h
    ELSE delete_comments_items(
             delete_all_comments(delete_all_comments(h, h[dom].ents[i][1]),
                                 h[dom].ents[i][2]),
             dom, i + 1)

\* Lines 521-522.
delete_comments_elements(h, dom, i) ==
    IF i > Len(h[dom].ents) THEN h
    ELSE delete_comments_elements(delete_all_comments(h, h[dom].ents[i]), dom, i + 1)

----------------------------------------------------------------------------
(* merge_with *)

\* Lines 440-447: the structural merge, by the kind of the incoming root.
merge_root(h, lhs_root, rhs) ==
    IF h[rhs].kind = "map" THEN _merge_dicts(h, lhs_root, rhs, <<>>)
    ELSE IF h[rhs].kind = "seq" THEN _merge_lists(h, lhs_root, rhs, <<>>)
    ELSE Returned(h, lhs_root)

\* The resolver's part of the outcome of a call.
resolver_left(r) ==
    [heap |-> r.heap, lhs_anchors |-> r.lhs_anchors, rhs_anchors |-> r.rhs_anchors]

\* Lines 442 and 445: self.data = what the structural merge m returned, r
\* being what the resolver left.
merge_done(m, r) ==
    [heap |-> m.heap, data |-> m.node, fail |-> NoFailure, hang |-> m.hang,
     raised |-> m.raised,
     steps |-> <<"strip", "resolve", "prepare", "merge">>, resolver |-> resolver_left(r)]

\* A mutation of merge_resolved: prepare and the structural merge run after
\* a fatal error of the resolver too.
merge_resolved_anyway(r, lhs_root, rhs) ==
    [merge_done(merge_root(r.heap, lhs_root, rhs), r) EXCEPT !.fail = r.fail]

\* Lines 435-447, given what the anchor resolver r left.  A fatal error of
\* the resolver ends the run before prepare and before the structural merge.
merge_resolved(r, lhs_root, rhs) ==
    IF r.fail # NoFailure
    THEN [heap |-> r.heap, data |-> lhs_root, fail |-> r.fail, hang |-> FALSE,
          raised |-> FALSE,
          steps |-> <<"strip", "resolve">>, resolver |-> resolver_left(r)]
    ELSE merge_done(merge_root(r.heap, lhs_root, rhs), r)

\* Lines 430-447, as [heap, data, fail, hang, raised, steps, resolver].
merge_with_result(h, lhs_root, rhs) ==
    merge_resolved(_resolve_anchor_conflicts(delete_all_comments(h, rhs), lhs_root, rhs),
                   lhs_root, rhs)

\* One call of Merger.merge_with on the next incoming document.  status
\* becomes "failed" when logger.error has ended the run, "hung" when the
\* call never returns and "crashed" when it ends in an exception.
merge_with ==
    /\ status = "ready"
    /\ pending # <<>>
    /\ \E r \in {merge_with_result(heap, data, Head(pending))} :
           /\ heap' = r.heap
           /\ data' = r.data
           /\ failure' = r.fail
           /\ status' = IF r.fail # NoFailure THEN "failed"
                        ELSE IF r.hang THEN "hung"
                        ELSE IF r.raised THEN "crashed" ELSE "ready"
           /\ steps' = r.steps
           /\ resolver' = r.resolver
    /\ prev' = [heap |-> heap, data |-> data, rhs |-> Head(pending)]
    /\ pending' = Tail(pending)
    /\ calls' = calls + 1
    /\ UNCHANGED <<cfg, pyhash>>

Next == merge_with

----------------------------------------------------------------------------
(* Documents as the parser hands them over. *)

\* A mapping with the keys ks, in order, at the nodes base, base+1, ...;
\* every value is the plain scalar val.
FlatMapDoc(base, ks, val) ==
    [n \in base..(base + 2 * Len(ks)) |->
        IF n = base
        THEN MapNode([i \in 1..Len(ks) |-> <<base + 2 * i - 1, base + 2 * i>>], None)
        ELSE IF (n - base) % 2 = 1
        THEN ScalarNode(ks[(n - base + 1) \div 2], NoAttr)
        ELSE ScalarNode(val, NoAttr)]

\* A list of the plain scalars vals.
FlatListDoc(base, vals) ==
    [n \in base..(base + Len(vals)) |->
        IF n = base
        THEN SeqNode([i \in 1..Len(vals) |-> base + i], None)
        ELSE ScalarNode(vals[n - base], NoAttr)]

\* A mapping given by its <<key, value>> strings.
RecordDoc(base, kvs) ==
    [n \in base..(base + 2 * Len(kvs)) |->
        IF n = base
        THEN MapNode([i \in 1..Len(kvs) |-> <<base + 2 * i - 1, base + 2 * i>>], None)
        ELSE IF (n - base) % 2 = 1
        THEN ScalarNode(kvs[(n - base + 1) \div 2][1], NoAttr)
        ELSE ScalarNode(kvs[(n - base) \div 2][2], NoAttr)]

\* The heap of the records recs[1..], record r at base + 10 * r.
RECURSIVE RecordHeap(_, _, _)
RecordHeap(base, recs, r) ==
    IF r > Len(recs) THEN <<>>
    ELSE RecordDoc(base + 10 * r, recs[r]) @@ RecordHeap(base, recs, r + 1)

\* A list of mappings (an array of hashes).
RecordListDoc(base, recs) ==
    (base :> SeqNode([r \in 1..Len(recs) |-> base + 10 * r], None))
        @@ RecordHeap(base, recs, 1)

\* A root mapping {k: <the document at base + 10>}.
NestedDoc(base, inner) ==
    (base :> MapNode(<< <<base + 1, base + 10>> >>, None))
        @@ (base + 1 :> ScalarNode("k", NoAttr))
        @@ inner

\* The sequences over S of a length up to n.
SeqsUpTo(S, n) == UNION {[1..m -> S] : m \in 0..n}

\* Those without a repeated element.
DistinctSeqsUpTo(S, n) ==
    {q \in SeqsUpTo(S, n) : \A i, j \in 1..Len(q) : i # j => q[i] # q[j]}

Keys == {"a", "b", "c", "d", "e"}
Elems == {"u", "v", "w"}
HashModes == {"LEFT", "RIGHT", "DEEP"}
ArrayModes == {"LEFT", "RIGHT", "UNIQUE", "ALL"}
AoHModes == {"LEFT", "RIGHT", "UNIQUE", "DEEP", "ALL"}
AnchorModes == {"RENAME", "LEFT", "RIGHT", "STOP", "UNSET"}

\* The MergerConfig defaults.
DefaultCfg ==
    [hash |-> "DEEP", array |-> "ALL", aoh |-> "ALL", anchor |-> "STOP", aohkey |-> "id"]

\* What every run starts with, whatever the documents.
InitCommon ==
    /\ status = "ready"
    /\ failure = NoFailure
    /\ steps = <<>>
    /\ calls = 0
    /\ data = 1
    /\ prev = [heap |-> heap, data |-> 1, rhs |-> 1]
    /\ resolver = [heap |-> heap, lhs_anchors |-> <<>>, rhs_anchors |-> <<>>]

\* Two mappings of plain scalars, the prime document and one to merge.
InitDict ==
    /\ \E tk \in DistinctSeqsUpTo(Keys, MaxKeys), ik \in DistinctSeqsUpTo(Keys, MaxKeys) :
          heap = FlatMapDoc(1, tk, "t") @@ FlatMapDoc(101, ik, "i")
    /\ pending = <<101>>
    /\ \E hm \in HashModes : cfg = [DefaultCfg EXCEPT !.hash = hm]
    /\ pyhash = <<>>
    /\ InitCommon

SpecDict == InitDict /\ [][Next]_vars

\* Two lists of plain scalars.
InitList ==
    /\ \E tv \in SeqsUpTo(Elems, MaxElems), iv \in SeqsUpTo(Elems, MaxElems) :
          heap = FlatListDoc(1, tv) @@ FlatListDoc(101, iv)
    /\ pending = <<101>>
    /\ \E am \in ArrayModes : cfg = [DefaultCfg EXCEPT !.array = am]
    /\ pyhash = <<>>
    /\ InitCommon

SpecList == InitList /\ [][Next]_vars

\* The records a target list may hold and those an incoming list may hold.
TargetRecords ==
    { << <<"id", "1">>, <<"v", "x">> >>,
      << <<"id", "2">>, <<"v", "x">> >>,
      << <<"v", "x">> >> }
IncomingRecords ==
    { << <<"id", "1">>, <<"v", "y">> >>,
      << <<"id", "2">>, <<"v", "z">> >>,
      << <<"w", "z">>, <<"id", "1">> >> }

\* Two arrays of hashes.
InitAoH ==
    /\ \E tr \in SeqsUpTo(TargetRecords, MaxRecs), ir \in SeqsUpTo(IncomingRecords, MaxRecs) :
          heap = RecordListDoc(1, tr) @@ RecordListDoc(101, ir)
    /\ pending = <<101>>
    /\ \E am \in AoHModes, hm \in HashModes :
          cfg = [DefaultCfg EXCEPT !.aoh = am, !.hash = hm]
    /\ pyhash = <<>>
    /\ InitCommon

SpecAoH == InitAoH /\ [][Next]_vars

\* A mapping or a list, at the root or as the value of the root's key k, in
\* the prime document and in the incoming one; the incoming one may be empty.
InitNested ==
    /\ \E nested \in BOOLEAN, kind \in {"map", "seq"} :
          \E tk \in DistinctSeqsUpTo({"a", "b"}, MaxKeys),
             ik \in DistinctSeqsUpTo({"a", "b"}, MaxKeys),
             tv \in SeqsUpTo(Elems, MaxElems),
             iv \in SeqsUpTo(Elems, MaxElems) :
              LET Inner(base, ks, vs, val) ==
                      IF kind = "map" THEN FlatMapDoc(base, ks, val)
                      ELSE FlatListDoc(base, vs)
              IN  /\ kind = "map" => (tv = <<>> /\ iv = <<>>)
                  /\ kind = "seq" => (tk = <<>> /\ ik = <<>>)
                  /\ heap = IF nested
                            THEN NestedDoc(1, Inner(11, tk, tv, "t"))
                                     @@ NestedDoc(101, Inner(111, ik, iv, "i"))
                            ELSE Inner(1, tk, tv, "t") @@ Inner(101, ik, iv, "i")
    /\ pending = <<101>>
    /\ \E hm \in HashModes, am \in ArrayModes :
          cfg = [DefaultCfg EXCEPT !.hash = hm, !.array = am]
    /\ pyhash = <<>>
    /\ InitCommon

SpecNested == InitNested /\ [][Next]_vars

\* Anchor names.
X == <<"x">>
XU == <<"x", "_">>
Y == <<"y">>
K == <<"k">>

\* A document with anchors, by its shape p:
\*     m: &am ...                (first, after use, or absent: p.m, p.mfirst)
\*     aliases: [&a1 v1, &a2 v2]
\*     use: *a1
\*     &k kv: w                  (first, last, or absent when p.kv = "")
\* where the value of m is a scalar or the mapping {in: z}, and the second
\* element of aliases is a scalar or (p.e2map) the empty mapping &a2 {}.
AnchorDoc(base, p) ==
    LET mEnt == IF p.m = "none" THEN <<>> ELSE << <<base + 6, base + 7>> >>
        kEnt == IF p.kv = "" THEN <<>> ELSE << <<base + 10, base + 11>> >>
        ents == (IF p.mfirst THEN mEnt ELSE <<>>)
                    \o (IF p.kfirst THEN kEnt ELSE <<>>)
                    \o << <<base + 1, base + 2>>, <<base + 5, base + 3>> >>
                    \o (IF p.mfirst THEN <<>> ELSE mEnt)
                    \o (IF p.kfirst THEN <<>> ELSE kEnt)
    IN  (base :> MapNode(ents, None))
            @@ (base + 1 :> ScalarNode("aliases", NoAttr))
            @@ (base + 2 :> SeqNode(<<base + 3, base + 4>>, None))
            @@ (base + 3 :> ScalarNode(p.v1, p.a1))
            @@ (base + 4 :> IF p.e2map THEN MapNode(<<>>, p.a2) ELSE ScalarNode(p.v2, p.a2))
            @@ (base + 5 :> ScalarNode("use", NoAttr))
            @@ (IF p.m = "none" THEN <<>>
                ELSE (base + 6 :> ScalarNode("m", NoAttr))
                         @@ (IF p.m = "scalar"
                             THEN (base + 7 :> ScalarNode(p.vm, p.am))
                             ELSE (base + 7 :> MapNode(<< <<base + 8, base + 9>> >>, p.am))
                                      @@ (base + 8 :> ScalarNode("in", NoAttr))
                                      @@ (base + 9 :> ScalarNode("z", NoAttr))))
            @@ (IF p.kv = "" THEN <<>>
                ELSE (base + 10 :> ScalarNode(p.kv, K))
                         @@ (base + 11 :> ScalarNode("w", NoAttr)))

\* The shapes of the prime document.
PrimeShapes ==
    {[a1 |-> X, v1 |-> "L1", a2 |-> a2, v2 |-> "L2", e2map |-> FALSE,
      m |-> mk[1], vm |-> "L3", am |-> Y, mfirst |-> FALSE,
      kv |-> mk[2], kfirst |-> mk[3]] :
        a2 \in {NoAttr, None, XU},
        mk \in {<<"none", "", FALSE>>, <<"scalar", "", FALSE>>, <<"map", "", FALSE>>,
                <<"none", "ku", FALSE>>, <<"none", "ku", TRUE>>}}

\* The shapes of an incoming document: every anchored value is the prime
\* document's or another; the name x may be on a second node (m), and x_ on
\* a mapping that is a list element.
IncomingShapes ==
    {[a1 |-> s1[1], v1 |-> s1[2], a2 |-> s2[1], v2 |-> s2[2], e2map |-> s2[3],
      m |-> mk[1], vm |-> mk[2], am |-> mk[3], mfirst |-> mk[4],
      kv |-> mk[5], kfirst |-> mk[6]] :
        s1 \in {<<X, "L1">>, <<X, "R1">>, <<NoAttr, "R1">>},
        s2 \in {<<NoAttr, "R2", FALSE>>, <<None, "R2", FALSE>>, <<XU, "L2", FALSE>>,
                <<XU, "R2", FALSE>>, <<XU, "", TRUE>>},
        mk \in {<<"none", "", Y, FALSE, "", FALSE>>,
                <<"scalar", "L3", Y, FALSE, "", FALSE>>, <<"scalar", "L3", Y, TRUE, "", FALSE>>,
                <<"scalar", "R3", Y, FALSE, "", FALSE>>, <<"scalar", "R3", Y, TRUE, "", FALSE>>,
                <<"scalar", "R3", X, FALSE, "", FALSE>>,
                <<"map", "", Y, FALSE, "", FALSE>>, <<"map", "", Y, TRUE, "", FALSE>>,
                <<"none", "", Y, FALSE, "kv", FALSE>>, <<"none", "", Y, FALSE, "kv", TRUE>>}}

\* The shapes of a second incoming document.
SecondShapes ==
    {[a1 |-> X, v1 |-> v1, a2 |-> NoAttr, v2 |-> "S2", e2map |-> FALSE,
      m |-> "none", vm |-> "", am |-> Y, mfirst |-> FALSE,
      kv |-> "", kfirst |-> FALSE] : v1 \in {"L1", "S1"}}

\* What hash() gives a string is any integer but -1, the same for the whole
\* run; here one of each sign.
HashValues == {-2, 2}

\* The documents of h as the parser hands them over when (c) the first
\* element of the list "aliases" has a comment, in the prime document and in
\* the first incoming one.
Commented(h, c) == [h EXCEPT ![4].cmt = c, ![104].cmt = c]

\* A prime document and one or two incoming documents, with anchors.  The
\* string hash matters to RENAME alone.
InitAnchor ==
    /\ \E p \in PrimeShapes, q \in IncomingShapes, c \in BOOLEAN :
          /\ \/ /\ heap = Commented(AnchorDoc(1, p) @@ AnchorDoc(101, q), c)
                /\ pending = <<101>>
             \/ \E r \in SecondShapes :
                   /\ heap = Commented(AnchorDoc(1, p) @@ AnchorDoc(101, q)
                                           @@ AnchorDoc(201, r), c)
                   /\ pending = <<101, 201>>
    /\ \E cm \in AnchorModes : cfg = [DefaultCfg EXCEPT !.anchor = cm]
    /\ pyhash \in [{X, XU} -> HashValues]
    /\ cfg.anchor # "RENAME" => pyhash = [n \in {X, XU} |-> 2]
    /\ InitCommon

SpecAnchor == InitAnchor /\ [][Next]_vars

----------------------------------------------------------------------------
(* What the claims speak of: the target and the incoming document as the   *)
(* last merge_with call found them (T, I) and the target now (R).          *)

Range(q) == {q[i] : i \in 1..Len(q)}

\* The first position of x in q.
Pos(q, x) == CHOOSE i \in 1..Len(q) : q[i] = x /\ \A j \in 1..(i - 1) : q[j] # x

\* The key strings of mapping m, in order.
KeySeq(h, m) == [i \in 1..Len(h[m].ents) |-> h[h[m].ents[i][1]].value]

\* The scalar values of the elements of list m, in order.
ValSeq(h, m) == [i \in 1..Len(h[m].ents) |-> h[h[m].ents[i]].value]

TKeys == KeySeq(prev.heap, prev.data)
IKeys == KeySeq(prev.heap, prev.rhs)
RKeys == KeySeq(heap, data)

TEnts == prev.heap[prev.data].ents
IEnts == prev.heap[prev.rhs].ents
REnts == heap[data].ents

\* One merge_with call has run to its end.
Merged == calls = 1 /\ status = "ready"

\* C4: after a DEEP merge of mappings with scalar values the key set is
\* keys(T) \cup keys(I), every key of I holds I's value, every key of T
\* alone keeps T's value, and T's keys keep their relative order.
C4_DeepMergeResult ==
    Merged =>
        /\ data = prev.data
        /\ Range(RKeys) = Range(TKeys) \cup Range(IKeys)
        /\ Len(RKeys) = Cardinality(Range(RKeys))
        /\ \A i \in 1..Len(IKeys) :
              /\ REnts[Pos(RKeys, IKeys[i])][2] = IEnts[i][2]
              /\ heap[IEnts[i][2]].value = "i"
        /\ \A i \in 1..Len(TKeys) :
              TKeys[i] \notin Range(IKeys) =>
                  /\ REnts[Pos(RKeys, TKeys[i])][2] = TEnts[i][2]
                  /\ heap[TEnts[i][2]].value = "t"
        /\ \A i, j \in 1..Len(TKeys) :
              i < j => Pos(RKeys, TKeys[i]) < Pos(RKeys, TKeys[j])

\* {a:1, b:2} merged with {b:3, c:4} has become {a:1, b:3, c:4}.
C4_Witness ==
    /\ Merged
    /\ TKeys = <<"a", "b">>
    /\ IKeys = <<"b", "c">>
    /\ RKeys = <<"a", "b", "c">>
    /\ [i \in 1..3 |-> heap[REnts[i][2]].value] = <<"t", "i", "i">>

\* C5: every key new to the target that precedes a pre-existing key in the
\* incoming mapping is positioned before that key in the merged target.
C5_NewKeyBeforeExistingKey ==
    Merged =>
        \A n, k \in 1..Len(IKeys) :
            (n < k /\ IKeys[n] \notin Range(TKeys) /\ IKeys[k] \in Range(TKeys))
                => Pos(RKeys, IKeys[n]) < Pos(RKeys, IKeys[k])

\* The position in I of its last key that T held; 0 if T held none.
LastShared ==
    LET hits == {k \in 1..Len(IKeys) : IKeys[k] \in Range(TKeys)}
    IN  IF hits = {} THEN 0 ELSE CHOOSE k \in hits : \A k2 \in hits : k2 <= k

\* C6: the new keys appear in the merged target in their incoming order,
\* and those after the last pre-existing key of the incoming mapping are
\* the last keys of the target.
C6_NewKeyOrder ==
    Merged =>
        /\ \A m, n \in 1..Len(IKeys) :
              (m < n /\ IKeys[m] \notin Range(TKeys) /\ IKeys[n] \notin Range(TKeys))
                  => Pos(RKeys, IKeys[m]) < Pos(RKeys, IKeys[n])
        /\ SubSeq(RKeys, Len(RKeys) - (Len(IKeys) - LastShared) + 1, Len(RKeys))
              = SubSeq(IKeys, LastShared + 1, Len(IKeys))

\* C7: in mode ALL the merged list is the target's elements followed by
\* all the incoming elements, each the element it was.
C7_AppendAll ==
    (Merged /\ cfg.array = "ALL") =>
        /\ data = prev.data
        /\ REnts = TEnts \o IEnts
        /\ ValSeq(heap, data) = ValSeq(prev.heap, prev.data) \o ValSeq(prev.heap, prev.rhs)

\* Two elements joined two, one of them equal to a target element.
C7_Witness ==
    /\ Merged /\ cfg.array = "ALL"
    /\ Len(TEnts) = 2 /\ Len(IEnts) = 2 /\ Len(REnts) = 4
    /\ \E i \in 1..2, j \in 1..2 : heap[IEnts[i]].value = heap[TEnts[j]].value

\* The incoming elements no element of the list q equals, in order.
NotIn(q) ==
    SelectSeq(IEnts, LAMBDA e : \A t \in Range(q) : ~NodeEq(prev.heap, e, t))

\* The incoming elements that no target element and no earlier incoming
\* element equals, in order.
FirstNew ==
    LET F[i \in 0..Len(IEnts)] ==
            IF i = 0 THEN <<>>
            ELSE IF \A t \in Range(TEnts) \cup {IEnts[j] : j \in 1..(i - 1)} :
                        ~NodeEq(prev.heap, IEnts[i], t)
                 THEN Append(F[i - 1], IEnts[i]) ELSE F[i - 1]
    IN  F[Len(IEnts)]

\* C8 as stated: in mode UNIQUE exactly the incoming elements equal to an
\* element the target held before the merge are dropped; all the others are
\* appended in order.
C8_UniqueDropsTargetEqualsOnly ==
    (Merged /\ cfg.array = "UNIQUE") => REnts = TEnts \o NotIn(TEnts)

\* C8 amended: in mode UNIQUE an incoming element is dropped exactly when it
\* equals an element the target held before the merge or an earlier element
\* of the incoming list; the others are appended in order after the target's.
C8_UniqueDropsKnown ==
    (Merged /\ cfg.array = "UNIQUE") =>
        /\ data = prev.data
        /\ REnts = TEnts \o FirstNew
        /\ \A i \in 1..Len(REnts) : heap[REnts[i]] = prev.heap[REnts[i]]

\* An element that comes twice in the incoming list, and not in the target,
\* was appended once; an element of the target was dropped.
C8_Witness ==
    /\ Merged /\ cfg.array = "UNIQUE"
    /\ ValSeq(prev.heap, prev.data) = <<"u">>
    /\ ValSeq(prev.heap, prev.rhs) = <<"v", "v">>
    /\ ValSeq(heap, data) = <<"u", "v">>

\* The value a record holds at the identity key; "" if it does not hold it.
IdOf(h, rec) ==
    IF KeyIn(h, cfg.aohkey, rec) THEN h[GetItem(h, rec, cfg.aohkey)].value ELSE ""

\* The incoming records whose identity no target record and no earlier
\* incoming record has, in order.
NewRecords ==
    LET F[i \in 0..Len(IEnts)] ==
            IF i = 0 THEN <<>>
            ELSE IF \A t \in Range(TEnts) \cup {IEnts[j] : j \in 1..(i - 1)} :
                        IdOf(prev.heap, t) # IdOf(prev.heap, IEnts[i])
                 THEN Append(F[i - 1], IEnts[i]) ELSE F[i - 1]
    IN  F[Len(IEnts)]

\* The incoming records that are merged into the record at position p of
\* the list: those whose identity is first held there.
Donors(p) ==
    LET ids == [q \in 1..Len(TEnts \o NewRecords) |-> IdOf(prev.heap, (TEnts \o NewRecords)[q])]
    IN  {i \in 1..Len(IEnts) : Pos(ids, IdOf(prev.heap, IEnts[i])) = p}

\* C9: in an array-of-maps DEEP merge an incoming record whose identity some
\* record of the list has is merged into the first such record by the
\* mapping rule and the list does not grow; any other is appended.
C9_AoHDeepMerge ==
    (Merged /\ cfg.aoh = "DEEP" /\ cfg.hash = "DEEP") =>
        /\ data = prev.data
        /\ REnts = TEnts \o NewRecords
        /\ \A p \in 1..Len(REnts) :
              LET rec == REnts[p]
                  KeysIn(i) == Range(KeySeq(prev.heap, IEnts[i]))
              IN  /\ Range(KeySeq(heap, rec))
                        = Range(KeySeq(prev.heap, rec)) \cup UNION {KeysIn(i) : i \in Donors(p)}
                  /\ Len(KeySeq(heap, rec)) = Cardinality(Range(KeySeq(heap, rec)))
                  /\ \A k \in Range(KeySeq(heap, rec)) :
                        LET from == {i \in Donors(p) : k \in KeysIn(i)}
                        IN  heap[GetItem(heap, rec, k)].value =
                                IF from = {}
                                THEN prev.heap[GetItem(prev.heap, rec, k)].value
                                ELSE prev.heap[GetItem(prev.heap,
                                         IEnts[CHOOSE i \in from : \A i2 \in from : i2 <= i],
                                         k)].value

\* The values of the record at position p of list m, as <<key, value>>.
RecordAt(h, m, p) ==
    [i \in 1..Len(h[h[m].ents[p]].ents) |->
        <<h[h[h[m].ents[p]].ents[i][1]].value, h[h[h[m].ents[p]].ents[i][2]].value>>]

\* [{id:1, v:x}] merged with [{id:1, v:y}, {id:2, v:z}] has become
\* [{id:1, v:y}, {id:2, v:z}].
C9_Witness ==
    /\ Merged /\ cfg.aoh = "DEEP" /\ cfg.hash = "DEEP"
    /\ Len(TEnts) = 1 /\ Len(IEnts) = 2 /\ Len(REnts) = 2
    /\ RecordAt(prev.heap, prev.data, 1) = << <<"id", "1">>, <<"v", "x">> >>
    /\ RecordAt(prev.heap, prev.rhs, 1) = << <<"id", "1">>, <<"v", "y">> >>
    /\ RecordAt(prev.heap, prev.rhs, 2) = << <<"id", "2">>, <<"v", "z">> >>
    /\ RecordAt(heap, data, 1) = << <<"id", "1">>, <<"v", "y">> >>
    /\ RecordAt(heap, data, 2) = << <<"id", "2">>, <<"v", "z">> >>

\* The nodes of the document at root: the root, and every mapping key,
\* mapping value and list element below it.
RECURSIVE ReachFrom(_, _, _)
ReachFrom(h, frontier, seen) ==
    IF frontier = {} THEN seen
    ELSE LET n == CHOOSE n \in frontier : TRUE
             kids == IF h[n].kind = "map"
                     THEN UNION {{h[n].ents[i][1], h[n].ents[i][2]} : i \in 1..Len(h[n].ents)}
                     ELSE IF h[n].kind = "seq" THEN Range(h[n].ents)
                     ELSE {}
         IN  ReachFrom(h, (frontier \cup kids) \ (seen \cup {n}), seen \cup {n})

Nodes(h, root) == ReachFrom(h, {root}, {})

\* The target is the same root with every node of it as it was.
TargetUnchanged ==
    /\ data = prev.data
    /\ \A n \in Nodes(prev.heap, prev.data) : heap[n] = prev.heap[n]

\* The incoming document held its collection under the key k.
IncomingNested == prev.heap[prev.rhs].kind = "map" /\ KeyIn(prev.heap, "k", prev.rhs)

\* The incoming collection and the target's collection at the same place.
IncomingInner == IF IncomingNested THEN GetItem(prev.heap, prev.rhs, "k") ELSE prev.rhs
TargetInner == IF IncomingNested THEN GetItem(prev.heap, prev.data, "k") ELSE prev.data

EmptyIncoming == Len(prev.heap[IncomingInner].ents) = 0

\* The document at a in heap h1 and the one at b in heap h2 have the same
\* structure: kinds, scalar values, key order and element order.
RECURSIVE SameTree(_, _, _, _)
SameTree(h1, a, h2, b) ==
    /\ h1[a].kind = h2[b].kind
    /\ h1[a].value = h2[b].value
    /\ Len(h1[a].ents) = Len(h2[b].ents)
    /\ \A i \in 1..Len(h1[a].ents) :
          IF h1[a].kind = "map"
          THEN /\ SameTree(h1, h1[a].ents[i][1], h2, h2[b].ents[i][1])
               /\ SameTree(h1, h1[a].ents[i][2], h2, h2[b].ents[i][2])
          ELSE SameTree(h1, h1[a].ents[i], h2, h2[b].ents[i])

\* C10 as stated: an empty incoming mapping or sequence, at the root or
\* under a shared key, leaves the target (structurally) unchanged whatever
\* the modes.
C10_EmptyIncomingNoChange ==
    (Merged /\ EmptyIncoming) => SameTree(prev.heap, prev.data, heap, data)

\* C10 amended: the same, except that an empty incoming mapping under a
\* shared key in hash mode RIGHT becomes the target's value at that key (and
\* nothing else of the target changes).
C10_EmptyIncomingNoChangeButRight ==
    (Merged /\ EmptyIncoming) =>
        IF IncomingNested /\ prev.heap[IncomingInner].kind = "map" /\ cfg.hash = "RIGHT"
        THEN /\ data = prev.data
             /\ heap[data].ents = << <<prev.heap[prev.data].ents[1][1], IncomingInner>> >>
             /\ heap[IncomingInner].ents = <<>>
             /\ \A n \in Nodes(prev.heap, prev.data) \ {data} : heap[n] = prev.heap[n]
        ELSE TargetUnchanged

\* An empty incoming list under a shared key, in array mode RIGHT, has left
\* the target's two-element list in place.
C10_Witness ==
    /\ Merged /\ EmptyIncoming /\ IncomingNested
    /\ prev.heap[IncomingInner].kind = "seq"
    /\ cfg.array = "RIGHT"
    /\ GetItem(heap, data, "k") = TargetInner
    /\ Len(heap[TargetInner].ents) = 2

----------------------------------------------------------------------------
(* Anchors: who carries which name.                                        *)

\* Node n carries an anchor name.
Named(h, n) == hasattr_anchor(h, n) /\ h[n].anchor # None

\* The nodes of the document at root that carry the name a.
Carriers(h, root, a) == {n \in Nodes(h, root) : Named(h, n) /\ h[n].anchor = a}

\* The anchor names of the document at root.
AnchorNames(h, root) == {h[n].anchor : n \in {m \in Nodes(h, root) : Named(h, m)}}

\* Every anchor name of the document is carried by one node identity.
OneIdentityPerName(h, root) ==
    \A a \in AnchorNames(h, root) : Cardinality(Carriers(h, root, a)) = 1

\* Every anchor name of the document is carried by a scalar.
ScalarAnchors(h, root) ==
    \A n \in Nodes(h, root) : Named(h, n) => h[n].kind = "scalar"

\* The names both documents carry on scalars of different values.
Conflicting(h, lhs, rhs) ==
    {a \in AnchorNames(h, lhs) \cap AnchorNames(h, rhs) :
        \E n \in Carriers(h, lhs, a), m \in Carriers(h, rhs, a) :
            /\ h[n].kind = "scalar" /\ h[m].kind = "scalar"
            /\ h[n].value # h[m].value}

\* The names both documents carry on nodes that are not equal.
Differing(h, lhs, rhs) ==
    {a \in AnchorNames(h, lhs) \cap AnchorNames(h, rhs) :
        \E n \in Carriers(h, lhs, a), m \in Carriers(h, rhs, a) : ~NodeEq(h, n, m)}

\* The last merge_with call returned.
Returned_ok == calls >= 1 /\ status = "ready"

\* The documents the last call was given were well formed, with anchors on
\* scalars alone.
WellAnchored ==
    /\ OneIdentityPerName(prev.heap, prev.data)
    /\ OneIdentityPerName(prev.heap, prev.rhs)
    /\ ScalarAnchors(prev.heap, prev.data)
    /\ ScalarAnchors(prev.heap, prev.rhs)

\* C1: from a target and an incoming document that each carry every anchor
\* name on one node identity, with anchors on scalars alone, a merge_with
\* call that returns in mode RENAME, KEEP_LEFT or KEEP_RIGHT leaves a target
\* in which no two node identities carry the same anchor name.
C1_OneIdentityPerAnchorName ==
    (Returned_ok /\ cfg.anchor \in {"RENAME", "LEFT", "RIGHT"} /\ WellAnchored)
        => OneIdentityPerName(heap, data)

\* The case of C2: mode ABORT or unset, and a name carried in both documents
\* by scalars of different values.
AbortCase ==
    /\ calls >= 1
    /\ cfg.anchor \in {"STOP", "UNSET"}
    /\ Conflicting(prev.heap, prev.data, prev.rhs) # {}

\* The call ended in a fatal failure before prepare and before any
\* structural merge, and the target is what it was.
FailedUntouched ==
    /\ status = "failed"
    /\ TargetUnchanged
    /\ steps = <<"strip", "resolve">>

TargetAnchorsCollection == ~ScalarAnchors(prev.heap, prev.data)

\* The incoming document has a list element that is a scalar with the anchor
\* attribute and no name.
IncomingUnnamedElement ==
    \E l \in Nodes(prev.heap, prev.rhs) :
        /\ prev.heap[l].kind = "seq"
        /\ \E i \in 1..Len(prev.heap[l].ents) :
              LET e == prev.heap[l].ents[i]
              IN  /\ prev.heap[e].kind = "scalar"
                  /\ hasattr_anchor(prev.heap, e)
                  /\ prev.heap[e].anchor = None

\* The incoming document carries some anchor name on a mapping or a sequence.
IncomingAnchorsCollection == ~ScalarAnchors(prev.heap, prev.rhs)

C3_RenameFresh ==
    (Returned_ok /\ cfg.anchor = "RENAME") =>
        \A a \in Conflicting(prev.heap, prev.data, prev.rhs) :
            /\ Carriers(heap, prev.rhs, a) = {}
            /\ \A n \in Carriers(prev.heap, prev.data, a) : heap[n].anchor = a
            /\ \A n \in Carriers(prev.heap, prev.rhs, a) :
                  /\ heap[n].anchor # a
                  /\ Carriers(prev.heap, prev.data, heap[n].anchor) = {}
                  /\ Carriers(heap, prev.rhs, heap[n].anchor)
                        \subseteq Carriers(prev.heap, prev.rhs, a)

----------------------------------------------------------------------------
(* KEEP_LEFT / KEEP_RIGHT.                                                 *)

\* The anchor resolution of the last call ran to its end in mode KEEP_LEFT
\* or KEEP_RIGHT: every lookup it made has located a node.
KeepResolved ==
    /\ calls >= 1
    /\ cfg.anchor \in {"LEFT", "RIGHT"}
    /\ Len(steps) > 2

\* The document that keeps its node, and the other one, by their roots.
RetainingDoc == IF cfg.anchor = "LEFT" THEN prev.data ELSE prev.rhs
OtherDoc == IF cfg.anchor = "LEFT" THEN prev.rhs ELSE prev.data

\* Position by position from n0 (before) and n1 (after): where a key, value
\* or element carried the name a before, the node ret is there after; a
\* mapping or sequence has kept its kind and its number of entries, so that
\* every entry is at the position it had.
RECURSIVE Substituted(_, _, _, _, _, _)
Substituted(h0, h1, n0, n1, a, ret) ==
    IF Named(h0, n0) /\ h0[n0].anchor = a THEN n1 = ret
    ELSE IF h0[n0].kind = "scalar" THEN TRUE
    ELSE /\ h1[n1].kind = h0[n0].kind
         /\ Len(h1[n1].ents) = Len(h0[n0].ents)
         /\ \A i \in 1..Len(h0[n0].ents) :
               IF h0[n0].kind = "seq"
               THEN Substituted(h0, h1, h0[n0].ents[i], h1[n1].ents[i], a, ret)
               ELSE /\ Substituted(h0, h1, h0[n0].ents[i][1], h1[n1].ents[i][1], a, ret)
                    /\ Substituted(h0, h1, h0[n0].ents[i][2], h1[n1].ents[i][2], a, ret)

\* C11: after an anchor resolution that ran to its end in mode KEEP_LEFT
\* (KEEP_RIGHT), for every name both documents carried on scalars of
\* different values, one node of the target (of the incoming document) that
\* carried the name is, by identity, at every key, value and element
\* position of the incoming document (of the target) that carried the name,
\* and every replaced key is at the position it had in its mapping.
C11_KeepSubstitutesRetainedNode ==
    KeepResolved =>
        \A a \in Conflicting(prev.heap, prev.data, prev.rhs) :
            \E ret \in Carriers(prev.heap, RetainingDoc, a) :
                Substituted(prev.heap, resolver.heap, OtherDoc, OtherDoc, a, ret)

\* KEEP_RIGHT with the name x on scalars of different values: the first
\* element of the target's list and the value of its key "use", which
\* carried x, are now the incoming document's node that carries x.
C11_Witness ==
    /\ KeepResolved
    /\ cfg.anchor = "RIGHT"
    /\ X \in Conflicting(prev.heap, prev.data, prev.rhs)
    /\ \E ret \in Carriers(prev.heap, prev.rhs, X) :
          /\ ret \notin Nodes(prev.heap, prev.data)
          /\ resolver.heap[GetItem(prev.heap, prev.data, "aliases")].ents[1] = ret
          /\ GetItem(resolver.heap, prev.data, "use") = ret
          /\ Named(prev.heap, GetItem(prev.heap, prev.data, "use"))

\* KEEP_LEFT with the name k on keys of different values: the incoming
\* document's last key, which carried k, has been replaced by the target's
\* key, at the same position.
C11_KeyWitness ==
    /\ KeepResolved
    /\ cfg.anchor = "LEFT"
    /\ K \in Conflicting(prev.heap, prev.data, prev.rhs)
    /\ \E i \in 2..Len(prev.heap[prev.rhs].ents) :
          /\ prev.heap[prev.heap[prev.rhs].ents[i][1]].anchor = K
          /\ resolver.heap[prev.rhs].ents[i][1] \in Carriers(prev.heap, prev.data, K)

----------------------------------------------------------------------------
(* The order of the steps of merge_with.                                   *)

\* C12: every merge_with call, the first or a later one, takes its steps in
\* the order strip, resolve, prepare, merge.  When the resolver has done its
\* work the incoming document has no comment left while every node of the
\* target has the comment it had, and the structural merge has written
\* nothing yet: every node of the target has the number of entries it had
\* and, in every mode but KEEP_RIGHT, is what it was.  A fatal failure of
\* the resolver ends the call after the step resolve, with the heap as the
\* resolver left it and the same target root; any other call goes on to
\* prepare and merge.
C12_PipelineOrder ==
    [][ /\ steps' \in {<<"strip", "resolve">>, <<"strip", "resolve", "prepare", "merge">>}
        /\ \A n \in Nodes(heap, Head(pending)) : ~resolver'.heap[n].cmt
        /\ \A n \in Nodes(heap, data) :
              /\ resolver'.heap[n].cmt = heap[n].cmt
              /\ resolver'.heap[n].kind = heap[n].kind
              /\ Len(resolver'.heap[n].ents) = Len(heap[n].ents)
              /\ cfg.anchor # "RIGHT" => resolver'.heap[n] = heap[n]
        /\ failure' # NoFailure <=> status' = "failed"
        /\ status' = "failed" =>
              /\ steps' = <<"strip", "resolve">>
              /\ heap' = resolver'.heap
              /\ data' = data
        /\ status' # "failed" => steps' = <<"strip", "resolve", "prepare", "merge">>
      ]_vars

\* A second call has failed in its resolver after a first call that ran all
\* four steps and changed the target; the incoming document of the second
\* call has lost no node to the target.
C12_Witness ==
    /\ calls = 2
    /\ status = "failed"
    /\ steps = <<"strip", "resolve">>
    /\ heap = resolver.heap
    /\ Len(heap[data].ents) >= 2
    /\ prev.rhs = 201

\* A commented incoming node is in the target after KEEP_RIGHT, without its
\* comment, next to a target node that has kept its comment.
C12_StripWitness ==
    /\ calls = 1
    /\ status = "ready"
    /\ cfg.anchor = "RIGHT"
    /\ prev.heap[104].cmt /\ ~heap[104].cmt
    /\ 104 \in Nodes(heap, data)

----------------------------------------------------------------------------
(* Anchors on mappings and sequences.                                      *)

\* The names both documents carried, on a mapping or a sequence in one of
\* them at least.
CollectionCollisions ==
    {a \in AnchorNames(prev.heap, prev.data) \cap AnchorNames(prev.heap, prev.rhs) :
        \E n \in Carriers(prev.heap, prev.data, a) \cup Carriers(prev.heap, prev.rhs, a) :
            prev.heap[n].kind \in {"map", "seq"}}

\* Nothing was rewritten for the name a: the nodes that carried it carry it
\* still, and each document has it on the nodes it had it on.
NotRewritten(a) ==
    /\ \A n \in Carriers(prev.heap, prev.data, a) \cup Carriers(prev.heap, prev.rhs, a) :
          heap[n].anchor = a
    /\ Carriers(resolver.heap, prev.data, a) = Carriers(prev.heap, prev.data, a)
    /\ Carriers(resolver.heap, prev.rhs, a) = Carriers(prev.heap, prev.rhs, a)

\* C13: when a name is carried in both documents and the target or the
\* incoming document carries it on a mapping or a sequence, merge_with ends
\* in a fatal failure before prepare and before the structural merge,
\* whatever the conflict mode, and nothing is rewritten for that name.
C13_CollectionAnchorFails ==
    (calls >= 1 /\ CollectionCollisions # {}) =>
        /\ status = "failed"
        /\ steps = <<"strip", "resolve">>
        /\ \A a \in CollectionCollisions : NotRewritten(a)

----------------------------------------------------------------------------
(* The anchor scan.                                                        *)

\* The mapping keys, mapping values and sequence elements below node n, in
\* the order of the document: a key, its value, what is below the value,
\* then the next entry.
RECURSIVE Visits(_, _, _)
Visits(h, n, i) ==
    IF h[n].kind = "scalar" \/ i > Len(h[n].ents) THEN <<>>
    ELSE IF h[n].kind = "seq"
    THEN <<h[n].ents[i]>> \o Visits(h, h[n].ents[i], 1) \o Visits(h, n, i + 1)
    ELSE <<h[n].ents[i][1], h[n].ents[i][2]>>
             \o Visits(h, h[n].ents[i][2], 1) \o Visits(h, n, i + 1)

\* The first node in document order that carries the name a.
FirstCarrier(h, root, a) ==
    LET v == Visits(h, root, 1)
    IN  v[CHOOSE i \in 1..Len(v) :
              /\ Named(h, v[i]) /\ h[v[i]].anchor = a
              /\ \A j \in 1..(i - 1) : ~(Named(h, v[j]) /\ h[v[j]].anchor = a)]

\* The keys of the scan are the anchor names of the document.
ScanKeysAreNames(anchors, root) == DictKeys(anchors) = AnchorNames(prev.heap, root)

\* Every name of the document is in the scan, with its first carrier.
ScanHoldsFirst(anchors, root) ==
    \A a \in AnchorNames(prev.heap, root) :
        a \in DictKeys(anchors) => DictGet(anchors, a) = FirstCarrier(prev.heap, root, a)

\* C14: the scans that merge_with takes of the target and of the incoming
\* document have as keys exactly the anchor names carried by a key, a value
\* or an element of the document, and give for each name the first node in
\* document order that carries it.
C14_ScanNamesFirstCarriers ==
    calls >= 1 =>
        /\ ScanKeysAreNames(resolver.lhs_anchors, prev.data)
        /\ ScanHoldsFirst(resolver.lhs_anchors, prev.data)
        /\ ScanKeysAreNames(resolver.rhs_anchors, prev.rhs)
        /\ ScanHoldsFirst(resolver.rhs_anchors, prev.rhs)

----------------------------------------------------------------------------
(* The anchor lookup of KEEP_LEFT and KEEP_RIGHT.                          *)

\* search_for_anchor finds, for every anchor name of the document at root, a
\* path that leads to a node carrying the name.
SearchFindsEveryName(h, root) ==
    \A a \in AnchorNames(h, root) :
        /\ search_for_anchor(h, root, a, <<>>).found
        /\ get_nodes(h, root, search_for_anchor(h, root, a, <<>>).path)
              \in Carriers(h, root, a)

\* C15: in the documents merge_with is given, search_for_anchor finds a
\* path to a carrier of every anchor name that a key, a value or an element
\* carries, wherever it is; and a lookup that found no path has ended the
\* call in a fatal failure before prepare and merge, the other document
\* still having a node that carries the name.
C15_LookupFindsCarrier ==
    calls >= 1 =>
        /\ SearchFindsEveryName(prev.heap, prev.data)
        /\ SearchFindsEveryName(prev.heap, prev.rhs)
        /\ failure.code = 1 =>
              /\ status = "failed"
              /\ steps = <<"strip", "resolve">>
              /\ \E n \in Nodes(resolver.heap, OtherDoc) :
                    /\ hasattr_anchor(resolver.heap, n)
                    /\ resolver.heap[n].anchor = failure.anchor

----------------------------------------------------------------------------
(* The hash merge mode below the root.                                     *)

\* The last of the incoming records merged into position p of the list.
LastDonor(p) == CHOOSE i \in Donors(p) : \A j \in Donors(p) : j <= i

\* C16, at the matched record of an array-of-maps DEEP merge: where a record
\* of the target is matched by an incoming record, hash mode LEFT leaves the
\* target's record at that position, unchanged, and hash mode RIGHT makes
\* that position of the target hold the incoming record.
C16_HashModeAtMatchedRecord ==
    (Merged /\ cfg.aoh = "DEEP" /\ cfg.hash \in {"LEFT", "RIGHT"}) =>
        /\ data = prev.data
        /\ Len(REnts) >= Len(TEnts)
        /\ \A p \in 1..Len(TEnts) :
              Donors(p) # {} =>
                  IF cfg.hash = "LEFT"
                  THEN /\ REnts[p] = TEnts[p]
                       /\ RecordAt(heap, data, p) = RecordAt(prev.heap, prev.data, p)
                  ELSE REnts[p] = IEnts[LastDonor(p)]

----------------------------------------------------------------------------
(* Termination.                                                            *)

\* C17: every merge_with call comes to an end, by returning or by failing:
\* no call is left in a list merge that walks the list it is appending to.
C17_MergeWithTerminates == status # "hung"

====
